---- MODULE Spec2Model ----
(***************************************************************************)
(* Model of microsetta_private_api/util/melissa.py: verify_address, the    *)
(* address verification that looks a prior record up, asks the Melissa     *)
(* Global Address API on a miss, classifies the result codes and stores    *)
(* the outcome.                                                            *)
(*                                                                         *)
(* Python values: a str is a TLA+ string, a bool a BOOLEAN, a dict a       *)
(* record (its keys are the DOMAIN).  A value that may be None is an       *)
(* option: None is the empty set and a present value v is {v}.             *)
(***************************************************************************)
EXTENDS Integers, Sequences, FiniteSets, TLC

VARIABLES
    pc,          \* per invocation slot: the step verify_address is at
    args,        \* per slot: the arguments of the running invocation
    record_id,   \* per slot: the identifier create_record returned
    url,         \* per slot: the url_params of the provider request
    response,    \* per slot: the provider's response
    r,           \* per slot: r_codes, r_good and the normalized fields
    u_success,   \* per slot: what update_results reported
    outcome,     \* per slot: the returned dict or the raised exception
    ops,         \* per slot: store/provider operations of this invocation
    known,       \* per slot: keys already verified afresh when the call began
    rows,        \* the melissa_address_queries table, pending rows included
    next_id,     \* the next identifier the table hands out
    verified,    \* keys for which a fresh call has returned a result
    calls,       \* invocations started so far
    cls          \* the classifier on its own: its input and its output

vars == <<pc, args, record_id, url, response, r, u_success, outcome, ops,
          known, rows, next_id, verified, calls, cls>>

-----------------------------------------------------------------------------
(* Bounds *)

MaxCalls == 2
MaxCodes == 3

Procs == {"p1", "p2"}

-----------------------------------------------------------------------------
(* Python values *)

None == {}
Some(v) == {v}
Val(o) == CHOOSE v \in o : TRUE

\* x in list
InList(x, list) == \E i \in 1..Len(list) : list[i] = x

\* s[0:n]
Prefix(s, n) == SubSeq(s, 1, IF Len(s) < n THEN Len(s) ELSE n)

RECURSIVE SplitFrom(_, _, _)
SplitFrom(s, start, i) ==
    IF i > Len(s) THEN <<SubSeq(s, start, Len(s))>>
    ELSE IF SubSeq(s, i, i) = ","
         THEN <<SubSeq(s, start, i - 1)>> \o SplitFrom(s, i + 1, i + 1)
         ELSE SplitFrom(s, start, i + 1)

\* s.split(",")
Split(s) == SplitFrom(s, 1, 1)

RECURSIVE Join(_)
\* ",".join(list), for a list of at least one element
Join(list) ==
    IF Len(list) = 1 THEN list[1]
    ELSE list[1] \o "," \o Join(Tail(list))

-----------------------------------------------------------------------------
(* The classification of the provider's result codes *)

\* the list of good codes with its last entry lost
GOOD_CODES_Short == <<"AV25", "AV24", "AV23", "AV22">>

GOOD_CODES == <<"AV25", "AV24", "AV23", "AV22", "AV21">>
GOOD_CODES_NO_ERROR == <<"AV14">>

NoFlags ==
    [r_good |-> FALSE, r_errors_present |-> FALSE, r_good_conditional |-> FALSE]

RECURSIVE ScanCodes_BreakOnConditional(_, _, _)
\* the for loop with a break at a conditional-good code as well
ScanCodes_BreakOnConditional(codes, i, flags) ==
    IF i > Len(codes) THEN flags
    ELSE LET code == codes[i]
             f1 == IF Prefix(code, 2) = "AE"
                   THEN [flags EXCEPT !.r_errors_present = TRUE]
                   ELSE flags
         IN  IF InList(code, GOOD_CODES_NO_ERROR)
             THEN [f1 EXCEPT !.r_good_conditional = TRUE]
             ELSE IF InList(code, GOOD_CODES)
             THEN [f1 EXCEPT !.r_good = TRUE]
             ELSE ScanCodes_BreakOnConditional(codes, i + 1, f1)

RECURSIVE ScanCodes(_, _, _)
\* the for loop over codes, from the i-th code on, with its break
ScanCodes(codes, i, flags) ==
    IF i > Len(codes) THEN flags
    ELSE LET code == codes[i]
             f1 == IF Prefix(code, 2) = "AE"
                   THEN [flags EXCEPT !.r_errors_present = TRUE]
                   ELSE flags
             f2 == IF InList(code, GOOD_CODES_NO_ERROR)
                   THEN [f1 EXCEPT !.r_good_conditional = TRUE]
                   ELSE f1
         IN  IF InList(code, GOOD_CODES)
             THEN [f2 EXCEPT !.r_good = TRUE]
             ELSE ScanCodes(codes, i + 1, f2)

\* the promotion of a conditional-good code without the look at the errors
CodesVerdict_IgnoreErrors(r_codes) ==
    LET flags == ScanCodes(Split(r_codes), 1, NoFlags)
    IN  flags.r_good_conditional \/ flags.r_good

\* the promotion of every record without errors, conditional code or not
CodesVerdict_PromoteWithoutConditional(r_codes) ==
    LET flags == ScanCodes(Split(r_codes), 1, NoFlags)
    IN  IF ~flags.r_errors_present
        THEN TRUE
        ELSE flags.r_good

\* r_good after the loop and the promotion of a conditional-good code
CodesVerdict(r_codes) ==
    LET flags == ScanCodes(Split(r_codes), 1, NoFlags)
    IN  IF flags.r_good_conditional /\ ~flags.r_errors_present
        THEN TRUE
        ELSE flags.r_good

\* the PO box block without the look at block_po_boxes
PoBoxBlocked_Always(record_obj, block_po_boxes) ==
    /\ "AddressType" \in DOMAIN record_obj
    /\ record_obj.AddressType = "P"

\* does the PO box block apply to this record
PoBoxBlocked(record_obj, block_po_boxes) ==
    /\ block_po_boxes
    /\ "AddressType" \in DOMAIN record_obj
    /\ record_obj.AddressType = "P"

\* the PO box block that marks the record bad and leaves r_codes as it was
ClassifyCodes_NoAppend(record_obj, block_po_boxes) ==
    IF PoBoxBlocked(record_obj, block_po_boxes)
    THEN [r_good |-> FALSE, r_codes |-> record_obj.Results]
    ELSE [r_good |-> CodesVerdict(record_obj.Results),
          r_codes |-> record_obj.Results]

\* r_good and r_codes as handed to update_results
ClassifyCodes(record_obj, block_po_boxes) ==
    IF PoBoxBlocked(record_obj, block_po_boxes)
    THEN [r_good |-> FALSE, r_codes |-> record_obj.Results \o ",AEPOBOX"]
    ELSE [r_good |-> CodesVerdict(record_obj.Results),
          r_codes |-> record_obj.Results]

-----------------------------------------------------------------------------
(* Exceptions and messages *)

Raise(exc, msg) == [kind |-> "raise", exc |-> exc, msg |-> msg]
Return(return_dict) == [kind |-> "return", value |-> return_dict]
NoOutcome == [kind |-> "none"]

\* str(n) for the status codes of the model
IntStr(n) ==
    CASE n = 200 -> "200"
      [] n = 404 -> "404"
      [] n = 500 -> "500"

\* t occurs in s
Contains(s, t) ==
    \E i \in 1..(Len(s) - Len(t) + 1) : SubSeq(s, i, i + Len(t) - 1) = t

\* the check of the required fields without the one of country
MissingRequired_NoCountry(a) ==
    \/ a.address_1 = None \/ Len(Val(a.address_1)) < 1
    \/ a.postal = None \/ Len(Val(a.postal)) < 1

\* the arguments fail the check of the required fields
MissingRequired(a) ==
    \/ a.address_1 = None \/ Len(Val(a.address_1)) < 1
    \/ a.postal = None \/ Len(Val(a.postal)) < 1
    \/ a.country = None \/ Len(Val(a.country)) < 1

ValidationError ==
    Raise("KeyError", "Must include address_1, postal, and country fields")

CreateError == Raise("RepoException", "Failed to create record in database.")

\* exception_msg += " Status Code: " + response.status_code adds an int to
\* a str: Python raises TypeError there, before the message is complete
TransportError(resp) ==
    Raise("TypeError", "can only concatenate str (not \"int\") to str")

UpdateError(id) ==
    Raise("ValueError",
          "Failed to update results for Melissa " \o "Address Query " \o id)

FormatError(id) ==
    Raise("Exception", "Melissa Global Address API failed on " \o id)

-----------------------------------------------------------------------------
(* The arguments *)

Address1s == {None, Some(""), Some("1 Main St")}
Address2s == {None, Some("Apt 2")}
Postals == {None, Some(""), Some("12345")}
Countries == {None, Some(""), Some("US")}

\* every combination of the required fields; the optional ones vary where
\* verify_address gets to read them
Arguments ==
    {a \in [address_1 : Address1s, address_2 : Address2s,
            address_3 : {None}, city : {None}, state : {None},
            postal : Postals, country : Countries, block_po_boxes : BOOLEAN] :
        MissingRequired(a) => (a.address_2 = None /\ a.block_po_boxes)}

NoArgs ==
    [address_1 |-> None, address_2 |-> None, address_3 |-> None,
     city |-> None, state |-> None, postal |-> None, country |-> None,
     block_po_boxes |-> TRUE]

\* the fields a duplicate is looked up by
Key(a) == <<a.address_1, a.address_2, a.postal, a.country>>

-----------------------------------------------------------------------------
(* The provider *)

\* the result code strings the provider answers with
ProviderResults == {"AV25", "AV14,AE01"}

\* the address types a record comes with: none, a PO box, a street
AddressTypes == {"absent", "P", "S"}

\* one record of the provider's answer
RecordObj(res, address_type) ==
    LET base ==
            [FormattedAddress |-> "1 MAIN ST;US", Results |-> res,
             AddressLine1 |-> "1 MAIN ST", AddressLine2 |-> "",
             AddressLine3 |-> "", Locality |-> "SAN DIEGO",
             AdministrativeArea |-> "CA", PostalCode |-> "12345-0001",
             CountryName |-> "United States", Latitude |-> "32.7",
             Longitude |-> "-117.1"]
    IN  IF address_type = "absent"
        THEN base
        ELSE base @@ [AddressType |-> address_type]

RecordObjs ==
    {RecordObj(res, t) : res \in ProviderResults, t \in AddressTypes}

\* the keys verify_address reads from the record without a check
RequiredKeys ==
    {"FormattedAddress", "Results", "AddressLine1", "AddressLine2",
     "AddressLine3", "Locality", "AdministrativeArea", "PostalCode",
     "CountryName", "Latitude", "Longitude"}

\* response.text: either no JSON text, or the text of a JSON object
Texts ==
    {[json |-> FALSE]}
    \cup {[json |-> TRUE, obj |-> [TransmissionResults |-> "GE05"]]}
    \cup {[json |-> TRUE, obj |-> [Records |-> <<>>]]}
    \cup {[json |-> TRUE, obj |-> [Records |-> <<[Results |-> "AV25"]>>]]}
    \cup {[json |-> TRUE, obj |-> [Records |-> <<rec>>]] : rec \in RecordObjs}

Responses ==
    {[ok |-> FALSE, status_code |-> 500, reason |-> "Internal Server Error",
      text |-> [json |-> FALSE]]}
    \cup {[ok |-> TRUE, status_code |-> 200, reason |-> "OK", text |-> t] :
              t \in Texts}

-----------------------------------------------------------------------------
(* The record store and its transactions *)

\* the identifier of the n-th row: a str, as verify_address concatenates it
\* to its messages
Identifier(n) == <<"1", "2", "3", "4", "5", "6", "7", "8", "9">>[n]

\* create_record: the row holding the raw input only
NewRow(id, a, owner) ==
    [melissa_address_query_id |-> id, owner |-> owner,
     source_address_1 |-> a.address_1, source_address_2 |-> a.address_2,
     source_address_3 |-> a.address_3, source_city |-> a.city,
     source_state |-> a.state, source_postal |-> a.postal,
     source_country |-> a.country,
     source_url |-> None, result_raw |-> None, result_codes |-> None,
     result_good |-> None, result_formatted_address |-> None,
     result_address_1 |-> None, result_address_2 |-> None,
     result_address_3 |-> None, result_city |-> None, result_state |-> None,
     result_postal |-> None, result_country |-> None,
     result_latitude |-> None, result_longitude |-> None]

\* update_results: the row with the provider's answer on it
UpdatedRow(row, u, response_raw, rr) ==
    [row EXCEPT
        !.source_url = Some(u), !.result_raw = Some(response_raw),
        !.result_codes = Some(rr.r_codes), !.result_good = Some(rr.r_good),
        !.result_formatted_address = Some(rr.r_formatted_address),
        !.result_address_1 = Some(rr.r_address_1),
        !.result_address_2 = Some(rr.r_address_2),
        !.result_address_3 = Some(rr.r_address_3),
        !.result_city = Some(rr.r_city), !.result_state = Some(rr.r_state),
        !.result_postal = Some(rr.r_postal),
        !.result_country = Some(rr.r_country),
        !.result_latitude = Some(rr.r_latitude),
        !.result_longitude = Some(rr.r_longitude)]

\* check_duplicate: the committed rows with the same four fields
DuplicateRows(table, address_1, address_2, postal, country) ==
    {row \in table :
        /\ row.owner = "committed"
        /\ row.source_address_1 = address_1
        /\ row.source_address_2 = address_2
        /\ row.source_postal = postal
        /\ row.source_country = country}

\* t.commit(): the rows the transaction wrote become visible to all
Committed(table, p) ==
    {IF row.owner = p THEN [row EXCEPT !.owner = "committed"] ELSE row :
        row \in table}

\* leaving the with block: what was not committed is rolled back
RolledBack(table, p) == {row \in table : row.owner # p}

-----------------------------------------------------------------------------
(* verify_address *)

\* url_params without the identifier of the record as the tracking token
UrlParams_NoToken(id, a) ==
    [id |-> "melissa_license_key", opt |-> "DeliveryLines:ON",
     format |-> "JSON", t |-> "", a1 |-> Val(a.address_1), loc |-> a.city,
     admarea |-> a.state, postal |-> Val(a.postal), ctry |-> Val(a.country),
     a2 |-> IF a.address_2 # None THEN Val(a.address_2) ELSE "",
     a3 |-> IF a.address_3 # None THEN Val(a.address_3) ELSE ""]

\* url_params, with address_2 and address_3 sent as "" when they are None
UrlParams(id, a) ==
    [id |-> "melissa_license_key", opt |-> "DeliveryLines:ON",
     format |-> "JSON", t |-> id, a1 |-> Val(a.address_1), loc |-> a.city,
     admarea |-> a.state, postal |-> Val(a.postal), ctry |-> Val(a.country),
     a2 |-> IF a.address_2 # None THEN Val(a.address_2) ELSE "",
     a3 |-> IF a.address_3 # None THEN Val(a.address_3) ELSE ""]

\* the dict of a duplicate with the flag of a fresh result
DuplicateResult_FlagFalse(dupe_status) ==
    [address_1 |-> dupe_status.result_address_1,
     address_2 |-> dupe_status.result_address_2,
     address_3 |-> dupe_status.result_address_3,
     city |-> dupe_status.result_city,
     state |-> dupe_status.result_state,
     postal |-> dupe_status.result_postal,
     country |-> dupe_status.result_country,
     latitude |-> dupe_status.result_latitude,
     longitude |-> dupe_status.result_longitude,
     valid |-> dupe_status.result_good,
     duplicate |-> Some(FALSE)]

\* the dict of a duplicate without the added field
DuplicateResult_NoFlag(dupe_status) ==
    [address_1 |-> dupe_status.result_address_1,
     address_2 |-> dupe_status.result_address_2,
     address_3 |-> dupe_status.result_address_3,
     city |-> dupe_status.result_city,
     state |-> dupe_status.result_state,
     postal |-> dupe_status.result_postal,
     country |-> dupe_status.result_country,
     latitude |-> dupe_status.result_latitude,
     longitude |-> dupe_status.result_longitude,
     valid |-> dupe_status.result_good]

\* the dict returned for a duplicate
DuplicateResult(dupe_status) ==
    [address_1 |-> dupe_status.result_address_1,
     address_2 |-> dupe_status.result_address_2,
     address_3 |-> dupe_status.result_address_3,
     city |-> dupe_status.result_city,
     state |-> dupe_status.result_state,
     postal |-> dupe_status.result_postal,
     country |-> dupe_status.result_country,
     latitude |-> dupe_status.result_latitude,
     longitude |-> dupe_status.result_longitude,
     valid |-> dupe_status.result_good,
     duplicate |-> Some(TRUE)]

\* the dict returned after a provider lookup
FreshResult(rr) ==
    [address_1 |-> Some(rr.r_address_1),
     address_2 |-> Some(rr.r_address_2),
     address_3 |-> Some(rr.r_address_3),
     city |-> Some(rr.r_city),
     state |-> Some(rr.r_state),
     postal |-> Some(rr.r_postal),
     country |-> Some(rr.r_country),
     latitude |-> Some(rr.r_latitude),
     longitude |-> Some(rr.r_longitude),
     valid |-> Some(rr.r_good)]

\* the locals read from the record, with the classification of its codes
Locals(record_obj, block_po_boxes) ==
    LET c == ClassifyCodes(record_obj, block_po_boxes)
    IN  [r_formatted_address |-> record_obj.FormattedAddress,
         r_codes |-> c.r_codes, r_good |-> c.r_good,
         r_address_1 |-> record_obj.AddressLine1,
         r_address_2 |-> record_obj.AddressLine2,
         r_address_3 |-> record_obj.AddressLine3,
         r_city |-> record_obj.Locality,
         r_state |-> record_obj.AdministrativeArea,
         r_postal |-> record_obj.PostalCode,
         r_country |-> record_obj.CountryName,
         r_latitude |-> record_obj.Latitude,
         r_longitude |-> record_obj.Longitude]

\* the handling of a response that sends the request again after a non-OK
\* answer
Handling_Retry(resp, id, block_po_boxes) ==
    IF resp.ok = FALSE
        THEN [to |-> "request"]
    ELSE IF ~resp.text.json
        THEN [to |-> "raise", exc |-> Raise("JSONDecodeError", "Expecting value")]
    ELSE IF "Records" \notin DOMAIN resp.text.obj
        THEN [to |-> "commit_failed"]
    ELSE IF Len(resp.text.obj.Records) = 0
        THEN [to |-> "raise", exc |-> Raise("IndexError", "list index out of range")]
    ELSE IF ~(RequiredKeys \subseteq DOMAIN resp.text.obj.Records[1])
        THEN [to |-> "raise", exc |-> Raise("KeyError", "FormattedAddress")]
    ELSE [to |-> "update_results",
          locals |-> Locals(resp.text.obj.Records[1], block_po_boxes)]

\* the handling of a response that commits the attempt after a non-OK
\* answer as it does after an answer without "Records"
Handling_CommitOnTransport(resp, id, block_po_boxes) ==
    IF resp.ok = FALSE
        THEN [to |-> "commit_failed"]
    ELSE IF ~resp.text.json
        THEN [to |-> "raise", exc |-> Raise("JSONDecodeError", "Expecting value")]
    ELSE IF "Records" \notin DOMAIN resp.text.obj
        THEN [to |-> "commit_failed"]
    ELSE IF Len(resp.text.obj.Records) = 0
        THEN [to |-> "raise", exc |-> Raise("IndexError", "list index out of range")]
    ELSE IF ~(RequiredKeys \subseteq DOMAIN resp.text.obj.Records[1])
        THEN [to |-> "raise", exc |-> Raise("KeyError", "FormattedAddress")]
    ELSE [to |-> "update_results",
          locals |-> Locals(resp.text.obj.Records[1], block_po_boxes)]

\* the handling of a response whose else branch raises without t.commit()
Handling_NoCommit(resp, id, block_po_boxes) ==
    IF resp.ok = FALSE
        THEN [to |-> "raise", exc |-> TransportError(resp)]
    ELSE IF ~resp.text.json
        THEN [to |-> "raise", exc |-> Raise("JSONDecodeError", "Expecting value")]
    ELSE IF "Records" \notin DOMAIN resp.text.obj
        THEN [to |-> "raise", exc |-> FormatError(id)]
    ELSE IF Len(resp.text.obj.Records) = 0
        THEN [to |-> "raise", exc |-> Raise("IndexError", "list index out of range")]
    ELSE IF ~(RequiredKeys \subseteq DOMAIN resp.text.obj.Records[1])
        THEN [to |-> "raise", exc |-> Raise("KeyError", "FormattedAddress")]
    ELSE [to |-> "update_results",
          locals |-> Locals(resp.text.obj.Records[1], block_po_boxes)]

\* where the handling of a response goes: an exception that leaves the
\* function at once, the commit of the else branch, or the update
Handling(resp, id, block_po_boxes) ==
    IF resp.ok = FALSE
        THEN [to |-> "raise", exc |-> TransportError(resp)]
    ELSE IF ~resp.text.json
        THEN [to |-> "raise", exc |-> Raise("JSONDecodeError", "Expecting value")]
    ELSE IF "Records" \notin DOMAIN resp.text.obj
        THEN [to |-> "commit_failed"]
    ELSE IF Len(resp.text.obj.Records) = 0
        THEN [to |-> "raise", exc |-> Raise("IndexError", "list index out of range")]
    ELSE IF ~(RequiredKeys \subseteq DOMAIN resp.text.obj.Records[1])
        THEN [to |-> "raise", exc |-> Raise("KeyError", "FormattedAddress")]
    ELSE [to |-> "update_results",
          locals |-> Locals(resp.text.obj.Records[1], block_po_boxes)]

Log(p, op) == ops' = [ops EXCEPT ![p] = Append(@, op)]

\* a call (the first of the slot, or the next one once the caller has the
\* outcome of the last), the check of the required fields and the opening
\* of the transaction
Call(p) ==
    /\ pc[p] \in {"idle", "done"}
    /\ calls < MaxCalls
    /\ calls' = calls + 1
    /\ \E a \in Arguments :
        /\ args' = [args EXCEPT ![p] = a]
        /\ IF MissingRequired(a)
           THEN /\ outcome' = [outcome EXCEPT ![p] = ValidationError]
                /\ pc' = [pc EXCEPT ![p] = "done"]
                /\ ops' = [ops EXCEPT ![p] = <<>>]
           ELSE /\ outcome' = [outcome EXCEPT ![p] = NoOutcome]
                /\ pc' = [pc EXCEPT ![p] = "check_duplicate"]
                /\ ops' = [ops EXCEPT ![p] = <<"Transaction">>]
    /\ known' = [known EXCEPT ![p] = verified]
    /\ record_id' = [record_id EXCEPT ![p] = None]
    /\ url' = [url EXCEPT ![p] = None]
    /\ response' = [response EXCEPT ![p] = None]
    /\ r' = [r EXCEPT ![p] = None]
    /\ u_success' = [u_success EXCEPT ![p] = None]
    /\ UNCHANGED <<rows, next_id, verified, cls>>

\* melissa_repo.check_duplicate and the return of a duplicate
CheckDuplicate(p) ==
    /\ pc[p] = "check_duplicate"
    /\ Log(p, "check_duplicate")
    /\ LET a == args[p]
           found == DuplicateRows(rows, a.address_1, a.address_2, a.postal,
                                  a.country)
       IN  IF found # {}
           THEN \E dupe_status \in found :
                    /\ outcome' = [outcome EXCEPT
                                      ![p] = Return(DuplicateResult(dupe_status))]
                    /\ pc' = [pc EXCEPT ![p] = "done"]
           ELSE /\ pc' = [pc EXCEPT ![p] = "create_record"]
                /\ UNCHANGED outcome
    /\ rows' = IF pc'[p] = "done" THEN RolledBack(rows, p) ELSE rows
    /\ UNCHANGED <<args, record_id, url, response, r, u_success, known,
                   next_id, verified, calls, cls>>

\* create_record followed by a t.commit() of its own, ahead of the request
CreateRecord_CommitAtOnce(p) ==
    /\ pc[p] = "create_record"
    /\ Log(p, "create_record")
    /\ \E created \in BOOLEAN :
        IF created
        THEN LET id == Identifier(next_id)
             IN  /\ rows' = Committed(rows \cup {NewRow(id, args[p], p)}, p)
                 /\ next_id' = next_id + 1
                 /\ record_id' = [record_id EXCEPT ![p] = Some(id)]
                 /\ url' = [url EXCEPT ![p] = Some(UrlParams(id, args[p]))]
                 /\ pc' = [pc EXCEPT ![p] = "request"]
                 /\ UNCHANGED outcome
        ELSE /\ outcome' = [outcome EXCEPT ![p] = CreateError]
             /\ pc' = [pc EXCEPT ![p] = "done"]
             /\ rows' = RolledBack(rows, p)
             /\ UNCHANGED <<next_id, record_id, url>>
    /\ UNCHANGED <<args, response, r, u_success, known, verified, calls, cls>>

\* melissa_repo.create_record, the check of its identifier and the
\* building of the request
CreateRecord(p) ==
    /\ pc[p] = "create_record"
    /\ Log(p, "create_record")
    /\ \E created \in BOOLEAN :
        IF created
        THEN LET id == Identifier(next_id)
             IN  /\ rows' = rows \cup {NewRow(id, args[p], p)}
                 /\ next_id' = next_id + 1
                 /\ record_id' = [record_id EXCEPT ![p] = Some(id)]
                 /\ url' = [url EXCEPT ![p] = Some(UrlParams(id, args[p]))]
                 /\ pc' = [pc EXCEPT ![p] = "request"]
                 /\ UNCHANGED outcome
        ELSE /\ outcome' = [outcome EXCEPT ![p] = CreateError]
             /\ pc' = [pc EXCEPT ![p] = "done"]
             /\ rows' = RolledBack(rows, p)
             /\ UNCHANGED <<next_id, record_id, url>>
    /\ UNCHANGED <<args, response, r, u_success, known, verified, calls, cls>>

\* requests.get and the handling of the response up to update_results
Request(p) ==
    /\ pc[p] = "request"
    /\ Log(p, "request")
    /\ \E resp \in Responses :
        LET h == Handling(resp, Val(record_id[p]), args[p].block_po_boxes)
        IN  /\ response' = [response EXCEPT ![p] = Some(resp)]
            /\ IF h.to = "raise"
               THEN /\ outcome' = [outcome EXCEPT ![p] = h.exc]
                    /\ pc' = [pc EXCEPT ![p] = "done"]
                    /\ rows' = RolledBack(rows, p)
                    /\ UNCHANGED r
               ELSE /\ pc' = [pc EXCEPT ![p] = h.to]
                    /\ r' = [r EXCEPT ![p] = IF h.to = "update_results"
                                             THEN Some(h.locals) ELSE None]
                    /\ UNCHANGED <<outcome, rows>>
    /\ UNCHANGED <<args, record_id, url, u_success, known, next_id, verified,
                   calls, cls>>

\* melissa_repo.update_results
UpdateResults(p) ==
    /\ pc[p] = "update_results"
    /\ Log(p, "update_results")
    /\ \E updated \in BOOLEAN :
        /\ u_success' = [u_success EXCEPT ![p] = Some(updated)]
        /\ rows' = IF updated
                   THEN {IF row.melissa_address_query_id = Val(record_id[p])
                         THEN UpdatedRow(row, Val(url[p]),
                                         Val(response[p]).text, Val(r[p]))
                         ELSE row : row \in rows}
                   ELSE rows
    /\ pc' = [pc EXCEPT ![p] = "commit"]
    /\ UNCHANGED <<args, record_id, url, response, r, outcome, known, next_id,
                   verified, calls, cls>>

\* the check of u_success ahead of t.commit(): a failed update leaves the
\* function without a commit
Commit_CheckFirst(p) ==
    /\ pc[p] = "commit"
    /\ IF Val(u_success[p]) = FALSE
       THEN /\ outcome' = [outcome EXCEPT
                              ![p] = UpdateError(Val(record_id[p]))]
            /\ rows' = RolledBack(rows, p)
            /\ UNCHANGED <<verified, ops>>
       ELSE /\ Log(p, "commit")
            /\ rows' = Committed(rows, p)
            /\ outcome' = [outcome EXCEPT
                              ![p] = Return(FreshResult(Val(r[p])))]
            /\ verified' = verified \cup {Key(args[p])}
    /\ pc' = [pc EXCEPT ![p] = "done"]
    /\ UNCHANGED <<args, record_id, url, response, r, u_success, known,
                   next_id, calls, cls>>

\* t.commit() after the update, the check of u_success and the return
Commit(p) ==
    /\ pc[p] = "commit"
    /\ Log(p, "commit")
    /\ rows' = Committed(rows, p)
    /\ IF Val(u_success[p]) = FALSE
       THEN /\ outcome' = [outcome EXCEPT
                              ![p] = UpdateError(Val(record_id[p]))]
            /\ UNCHANGED verified
       ELSE /\ outcome' = [outcome EXCEPT
                              ![p] = Return(FreshResult(Val(r[p])))]
            /\ verified' = verified \cup {Key(args[p])}
    /\ pc' = [pc EXCEPT ![p] = "done"]
    /\ UNCHANGED <<args, record_id, url, response, r, u_success, known,
                   next_id, calls, cls>>

\* the else branch: t.commit() and the exception for a response without
\* "Records"
CommitFailed(p) ==
    /\ pc[p] = "commit_failed"
    /\ Log(p, "commit")
    /\ rows' = Committed(rows, p)
    /\ outcome' = [outcome EXCEPT ![p] = FormatError(Val(record_id[p]))]
    /\ pc' = [pc EXCEPT ![p] = "done"]
    /\ UNCHANGED <<args, record_id, url, response, r, u_success, known,
                   next_id, verified, calls, cls>>

NoCls == [phase |-> "off"]

Init ==
    /\ pc = [p \in Procs |-> "idle"]
    /\ args = [p \in Procs |-> NoArgs]
    /\ record_id = [p \in Procs |-> None]
    /\ url = [p \in Procs |-> None]
    /\ response = [p \in Procs |-> None]
    /\ r = [p \in Procs |-> None]
    /\ u_success = [p \in Procs |-> None]
    /\ outcome = [p \in Procs |-> NoOutcome]
    /\ ops = [p \in Procs |-> <<>>]
    /\ known = [p \in Procs |-> {}]
    /\ rows = {}
    /\ next_id = 1
    /\ verified = {}
    /\ calls = 0
    /\ cls = NoCls

Next ==
    \E p \in Procs :
        \/ Call(p)
        \/ CheckDuplicate(p)
        \/ CreateRecord(p)
        \/ Request(p)
        \/ UpdateResults(p)
        \/ Commit(p)
        \/ CommitFailed(p)

Spec == Init /\ [][Next]_vars

-----------------------------------------------------------------------------
(* One fresh verification on its own, for every list of result codes: the  *)
(* provider answers with a record, the codes are classified as             *)
(* verify_address does, and update_results stores what it is handed.       *)

\* the codes a list is made of: the good codes, the conditional one, error
\* codes, an unrecognized one, and codes shorter than two characters
Codes ==
    {"AV25", "AV24", "AV23", "AV22", "AV21", "AV14", "AE01", "AE", "AS01",
     "A", ""}

CodeLists == UNION {[1..n -> Codes] : n \in 1..MaxCodes}

ClsArgs ==
    [address_1 |-> Some("1 Main St"), address_2 |-> None,
     address_3 |-> None, city |-> None, state |-> None,
     postal |-> Some("12345"), country |-> Some("US")]

ClsRecordObj == RecordObj(Join(cls.code_list), cls.address_type)

\* the classification of the record's codes
Classify ==
    /\ cls.phase = "response"
    /\ cls' = [phase |-> "classified", code_list |-> cls.code_list,
               address_type |-> cls.address_type,
               block_po_boxes |-> cls.block_po_boxes,
               locals |-> Locals(ClsRecordObj, cls.block_po_boxes)]
    /\ UNCHANGED <<pc, args, record_id, url, response, r, u_success, outcome,
                   ops, known, rows, next_id, verified, calls>>

\* update_results with the classified values, and the returned dict
Store ==
    /\ cls.phase = "classified"
    /\ cls' = [phase |-> "stored", code_list |-> cls.code_list,
               address_type |-> cls.address_type,
               block_po_boxes |-> cls.block_po_boxes,
               locals |-> cls.locals,
               row |-> UpdatedRow(NewRow("1", ClsArgs, "committed"),
                                  UrlParams("1", ClsArgs),
                                  [json |-> TRUE,
                                   obj |-> [Records |-> <<ClsRecordObj>>]],
                                  cls.locals),
               return_dict |-> FreshResult(cls.locals)]
    /\ UNCHANGED <<pc, args, record_id, url, response, r, u_success, outcome,
                   ops, known, rows, next_id, verified, calls>>

InitClassify ==
    /\ pc = [p \in Procs |-> "idle"]
    /\ args = [p \in Procs |-> NoArgs]
    /\ record_id = [p \in Procs |-> None]
    /\ url = [p \in Procs |-> None]
    /\ response = [p \in Procs |-> None]
    /\ r = [p \in Procs |-> None]
    /\ u_success = [p \in Procs |-> None]
    /\ outcome = [p \in Procs |-> NoOutcome]
    /\ ops = [p \in Procs |-> <<>>]
    /\ known = [p \in Procs |-> {}]
    /\ rows = {}
    /\ next_id = 1
    /\ verified = {}
    /\ calls = 0
    /\ cls \in [phase : {"response"}, code_list : CodeLists,
                address_type : AddressTypes, block_po_boxes : BOOLEAN]

NextClassify == Classify \/ Store

SpecClassify == InitClassify /\ [][NextClassify]_vars

-----------------------------------------------------------------------------
(* Properties *)

UnconditionalGood == {"AV21", "AV22", "AV23", "AV24", "AV25"}
HasCode(list, S) == \E i \in 1..Len(list) : list[i] \in S
StartsWithAE(code) == Len(code) >= 2 /\ SubSeq(code, 1, 2) = "AE"
HasError(list) == \E i \in 1..Len(list) : StartsWithAE(list[i])
Classified == cls.phase \in {"classified", "stored"}
OverrideApplies == cls.block_po_boxes /\ cls.address_type = "P"

\* the verdict the codes alone give, read off the list in two passes
CodesAloneVerdict(list) ==
    \/ HasCode(list, UnconditionalGood)
    \/ HasCode(list, {"AV14"}) /\ ~HasError(list)

RequiredAbsent(a) ==
    \E f \in {a.address_1, a.postal, a.country} : f = None \/ f = Some("")

Requests(p) == Cardinality({i \in 1..Len(ops[p]) : ops[p][i] = "request"})

\* C1: a call made after an earlier call with the same (address_1,
\* address_2, postal, country) returned a result of a fresh provider lookup
\* sends no request to the provider and returns a result with duplicate=true
C1_SecondCallIsDuplicate ==
    \A p \in Procs :
        (pc[p] # "idle" /\ Key(args[p]) \in known[p]) =>
            /\ Requests(p) = 0
            /\ pc[p] = "done" =>
                /\ outcome[p].kind = "return"
                /\ "duplicate" \in DOMAIN outcome[p].value
                /\ outcome[p].value.duplicate = Some(TRUE)

C1_Witness ==
    \E p \in Procs :
        /\ pc[p] = "done"
        /\ Key(args[p]) \in known[p]
        /\ outcome[p].kind = "return"
        /\ ops[p] = <<"Transaction", "check_duplicate">>

\* C2: with address_1, postal or country missing or empty, verify_address
\* fails with the validation error before it opens a transaction, looks a
\* duplicate up, creates a record or sends a provider request
C2_ValidationBeforeAnyAccess ==
    \A p \in Procs :
        (pc[p] # "idle" /\ RequiredAbsent(args[p])) =>
            /\ pc[p] = "done"
            /\ outcome[p] = ValidationError
            /\ ops[p] = <<>>

C2_Witness ==
    \E p \in Procs :
        /\ pc[p] = "done"
        /\ args[p].address_1 = Some("1 Main St")
        /\ args[p].postal = Some("12345")
        /\ args[p].country = Some("")
        /\ outcome[p] = ValidationError
        /\ rows # {}

\* C3: a code list with one of AV21..AV25 anywhere in it, whatever the other
\* codes, gives the verdict good when the PO box override does not apply
C3_UnconditionalGood ==
    (Classified /\ HasCode(cls.code_list, UnconditionalGood)
        /\ ~OverrideApplies) =>
        /\ cls.locals.r_good = TRUE
        /\ cls.phase = "stored" => cls.return_dict.valid = Some(TRUE)

C3_Witness ==
    /\ cls.phase = "stored"
    /\ cls.code_list = <<"AE01", "AV21">>
    /\ cls.address_type = "P"
    /\ ~cls.block_po_boxes
    /\ cls.return_dict.valid = Some(TRUE)

\* C4: a code list with AV14 and none of AV21..AV25, without the PO box
\* override, gives the verdict good exactly when no code of the list starts
\* with "AE", be it before or after AV14
C4_ConditionalGood ==
    (Classified /\ HasCode(cls.code_list, {"AV14"})
        /\ ~HasCode(cls.code_list, UnconditionalGood) /\ ~OverrideApplies) =>
        (cls.locals.r_good <=> ~HasError(cls.code_list))

C4_Witness ==
    /\ cls.phase = "stored"
    /\ cls.code_list = <<"AV14", "AE01">>
    /\ cls.locals.r_good = FALSE

\* C5: with block_po_boxes set and a record typed as a PO box the verdict is
\* bad for every code list, and the code string stored with the record is
\* the provider's code string followed by ",AEPOBOX"
C5_PoBoxBlocked ==
    (Classified /\ cls.block_po_boxes /\ cls.address_type = "P") =>
        /\ cls.locals.r_good = FALSE
        /\ cls.locals.r_codes = Join(cls.code_list) \o ",AEPOBOX"
        /\ cls.phase = "stored" =>
            /\ cls.row.result_good = Some(FALSE)
            /\ cls.row.result_codes = Some(Join(cls.code_list) \o ",AEPOBOX")
            /\ cls.return_dict.valid = Some(FALSE)

C5_Witness ==
    /\ cls.phase = "stored"
    /\ cls.block_po_boxes
    /\ cls.address_type = "P"
    /\ cls.code_list = <<"AV25">>
    /\ cls.row.result_codes = Some("AV25,AEPOBOX")
    /\ cls.row.result_good = Some(FALSE)

\* C6: with block_po_boxes unset the verdict is the one the codes alone give
\* and the stored code string is the provider's, whatever the address type
\* of the record
C6_NoBlockNoOverride ==
    (Classified /\ ~cls.block_po_boxes) =>
        /\ cls.locals.r_good = CodesAloneVerdict(cls.code_list)
        /\ cls.locals.r_codes = Join(cls.code_list)
        /\ cls.phase = "stored" =>
            /\ cls.row.result_good = Some(CodesAloneVerdict(cls.code_list))
            /\ cls.row.result_codes = Some(Join(cls.code_list))

C6_Witness ==
    /\ cls.phase = "stored"
    /\ ~cls.block_po_boxes
    /\ cls.address_type = "P"
    /\ cls.code_list = <<"AV14">>
    /\ cls.row.result_good = Some(TRUE)
    /\ cls.row.result_codes = Some("AV14")

\* the invocation of slot p got an OK response without "Records"
NoRecordsContainer(p) ==
    /\ pc[p] = "done"
    /\ response[p] # None
    /\ Val(response[p]).ok
    /\ Val(response[p]).text.json
    /\ "Records" \notin DOMAIN Val(response[p]).text.obj

\* the committed rows that hold the attempt of slot p
AttemptRows(p) ==
    {row \in rows :
        /\ row.owner = "committed"
        /\ row.melissa_address_query_id = Val(record_id[p])
        /\ row.source_address_1 = args[p].address_1
        /\ row.source_address_2 = args[p].address_2
        /\ row.source_postal = args[p].postal
        /\ row.source_country = args[p].country}

\* C7, as claimed: after an OK response without "Records" the call raises
\* and the store holds a committed attempt record for the input with the raw
\* provider response persisted on it
C7_RawResponsePersisted ==
    \A p \in Procs :
        NoRecordsContainer(p) =>
            /\ outcome[p].kind = "raise"
            /\ \E row \in AttemptRows(p) :
                   row.result_raw = Some(Val(response[p]).text)

\* C7, amended: after an OK response without "Records" the call raises the
\* plain Exception that names the record, and the store holds a committed
\* attempt record for the input that carries the raw input only: no
\* provider response, no codes and no verdict are persisted on it
C7_AttemptCommittedWithoutResponse ==
    \A p \in Procs :
        NoRecordsContainer(p) =>
            /\ outcome[p] = FormatError(Val(record_id[p]))
            /\ AttemptRows(p) =
                   {NewRow(Val(record_id[p]), args[p], "committed")}

C7_Witness ==
    \E p \in Procs :
        /\ NoRecordsContainer(p)
        /\ outcome[p].exc = "Exception"
        /\ \E row \in AttemptRows(p) : row.result_raw = None

\* the invocation of slot p got a non-OK response
TransportFailure(p) ==
    /\ pc[p] = "done"
    /\ response[p] # None
    /\ ~Val(response[p]).ok

\* C8: after a non-OK response the call raises an error that carries the
\* provider's status code and reason text, having sent one request and
\* updated nothing
C8_TransportErrorCarriesStatus ==
    \A p \in Procs :
        TransportFailure(p) =>
            /\ outcome[p].kind = "raise"
            /\ Contains(outcome[p].msg, IntStr(Val(response[p]).status_code))
            /\ Contains(outcome[p].msg, Val(response[p]).reason)
            /\ Requests(p) = 1
            /\ ~InList("update_results", ops[p])
            /\ r[p] = None

\* the failure class of the exception slot p ended with
FailureClass(p) ==
    IF RequiredAbsent(args[p]) THEN "validation"
    ELSE IF record_id[p] = None \/ u_success[p] = Some(FALSE)
         THEN "persistence"
    ELSE IF ~Val(response[p]).ok THEN "transport"
    ELSE "format"

Failed(p) == pc[p] = "done" /\ outcome[p].kind = "raise"

\* C9: failures of two different classes (validation, persistence,
\* transport, provider format) never reach the caller as the same kind of
\* exception
C9_DistinctErrorKinds ==
    \A p, q \in Procs :
        (Failed(p) /\ Failed(q) /\ FailureClass(p) # FailureClass(q)) =>
            outcome[p].exc # outcome[q].exc

\* C10, as claimed: every returned result has a duplicate flag, true when
\* it was served from a prior record without a provider request and false
\* when it comes from a provider request of this invocation
C10_DuplicateFlagAlways ==
    \A p \in Procs :
        (pc[p] = "done" /\ outcome[p].kind = "return") =>
            /\ "duplicate" \in DOMAIN outcome[p].value
            /\ outcome[p].value.duplicate = Some(Requests(p) = 0)

\* C10, amended: a result served from a prior record without a provider
\* request has duplicate=true; a result that comes from a provider request
\* of this invocation has no duplicate entry at all
C10_DuplicateFlagOnDuplicatesOnly ==
    \A p \in Procs :
        (pc[p] = "done" /\ outcome[p].kind = "return") =>
            IF Requests(p) = 0
            THEN /\ "duplicate" \in DOMAIN outcome[p].value
                 /\ outcome[p].value.duplicate = Some(TRUE)
            ELSE "duplicate" \notin DOMAIN outcome[p].value

C10_Witness ==
    \E p, q \in Procs :
        /\ pc[p] = "done" /\ outcome[p].kind = "return"
        /\ pc[q] = "done" /\ outcome[q].kind = "return"
        /\ Requests(p) = 1 /\ "duplicate" \notin DOMAIN outcome[p].value
        /\ Requests(q) = 0 /\ outcome[q].value.duplicate = Some(TRUE)

\* the invocation of slot p has created its record and not yet committed
InFlight(p) ==
    pc[p] \in {"request", "update_results", "commit", "commit_failed"}

\* the rows with the four fields of the arguments of slot p
SameKeyRows(p) ==
    {row \in rows :
        /\ row.source_address_1 = args[p].address_1
        /\ row.source_address_2 = args[p].address_2
        /\ row.source_postal = args[p].postal
        /\ row.source_country = args[p].country}

\* C11: the duplicate lookup sees committed records only: the record of an
\* invocation that has not committed yet is pending and no lookup finds it.
\* The witness is the race: two invocations for one new address both miss
\* the lookup, both call the provider, and two records for the same
\* (address_1, address_2, postal, country) end up committed
C11_InFlightRecordsUnseen ==
    \A p \in Procs :
        InFlight(p) =>
            /\ \E row \in SameKeyRows(p) :
                   /\ row.melissa_address_query_id = Val(record_id[p])
                   /\ row.owner = p
            /\ \A row \in DuplicateRows(rows, args[p].address_1,
                                        args[p].address_2, args[p].postal,
                                        args[p].country) :
                   row.melissa_address_query_id # Val(record_id[p])

C11_Witness ==
    \E p, q \in Procs :
        /\ p # q
        /\ pc[p] = "done" /\ pc[q] = "done"
        /\ Key(args[p]) = Key(args[q])
        /\ Key(args[p]) \notin known[p] /\ Key(args[q]) \notin known[q]
        /\ InList("create_record", ops[p]) /\ InList("create_record", ops[q])
        /\ Requests(p) = 1 /\ Requests(q) = 1
        /\ \E row1, row2 \in SameKeyRows(p) :
               /\ row1.owner = "committed" /\ row2.owner = "committed"
               /\ row1.melissa_address_query_id = Val(record_id[p])
               /\ row2.melissa_address_query_id = Val(record_id[q])
               /\ row1.melissa_address_query_id # row2.melissa_address_query_id

\* the invocation of slot p got no identifier from create_record
CreateFailed(p) ==
    /\ pc[p] = "done"
    /\ InList("create_record", ops[p])
    /\ record_id[p] = None

\* C12: when create_record yields no identifier the call fails with the
\* persistence error and sends no provider request; a request is sent only
\* after a record was created, with its identifier as the tracking token
C12_RequestOnlyAfterCreate ==
    \A p \in Procs :
        /\ CreateFailed(p) =>
            /\ outcome[p].kind = "raise"
            /\ outcome[p].exc = "RepoException"
            /\ Requests(p) = 0
        /\ (pc[p] # "idle" /\ (pc[p] = "request" \/ Requests(p) > 0)) =>
            /\ record_id[p] # None
            /\ url[p] # None
            /\ Val(url[p]).t = Val(record_id[p])
            /\ \E i \in 1..Len(ops[p]) :
                   /\ ops[p][i] = "create_record"
                   /\ \A j \in 1..Len(ops[p]) : ops[p][j] = "request" => i < j

C12_Witness ==
    \E p, q \in Procs :
        /\ CreateFailed(p)
        /\ outcome[p].exc = "RepoException"
        /\ ops[p] = <<"Transaction", "check_duplicate", "create_record">>
        /\ Requests(q) = 1
        /\ Val(url[q]).t = Val(record_id[q])

\* the invocation of slot p was told by update_results that it failed
UpdateFailed(p) == pc[p] = "done" /\ u_success[p] = Some(FALSE)

\* C13, as claimed: the order is update, success check, commit: after an
\* update that does not report success the call fails with the persistence
\* error and has not committed; a commit on the fresh path implies that the
\* update reported success
C13_CheckBeforeCommit ==
    \A p \in Procs :
        /\ UpdateFailed(p) =>
            /\ outcome[p].kind = "raise"
            /\ outcome[p].exc = "ValueError"
            /\ ~InList("commit", ops[p])
        /\ (InList("update_results", ops[p]) /\ InList("commit", ops[p])) =>
            u_success[p] = Some(TRUE)

\* C13, amended: the order is update, commit, success check: after an
\* update that does not report success the call commits all the same, so
\* that the attempt record is committed, and then fails with the
\* persistence error (ValueError)
C13_CommitBeforeCheck ==
    \A p \in Procs :
        UpdateFailed(p) =>
            /\ outcome[p].kind = "raise"
            /\ outcome[p].exc = "ValueError"
            /\ ops[p] = <<"Transaction", "check_duplicate", "create_record",
                          "request", "update_results", "commit">>
            /\ AttemptRows(p) # {}

C13_Witness ==
    \E p \in Procs :
        /\ UpdateFailed(p)
        /\ outcome[p].exc = "ValueError"
        /\ InList("commit", ops[p])
        /\ AttemptRows(p) # {}

\* the verdict of the two-pass reference: the one the codes alone give,
\* then forced bad by the PO box override
ReferenceVerdict ==
    IF OverrideApplies THEN FALSE ELSE CodesAloneVerdict(cls.code_list)

\* C14: for every code list, address type and block_po_boxes, the verdict
\* of the scan that stops at the first unconditional-good code is the
\* verdict of the two-pass reference
C14_ScanEqualsReference ==
    Classified => cls.locals.r_good = ReferenceVerdict

C14_Witness ==
    /\ cls.phase = "stored"
    /\ cls.code_list = <<"AV14", "AV25", "AE01">>
    /\ ~cls.block_po_boxes
    /\ cls.locals.r_good = TRUE

\* the store and provider operations of one invocation, in the order of
\* the code
CallChain ==
    <<"check_duplicate", "create_record", "request", "update_results">>

\* the operations of CallChain among those of a log, in the order of the log
RECURSIVE ChainOps(_)
ChainOps(log) ==
    IF log = <<>> THEN <<>>
    ELSE IF InList(Head(log), CallChain)
         THEN <<Head(log)>> \o ChainOps(Tail(log))
         ELSE ChainOps(Tail(log))

\* C15: whatever its outcome, an invocation does at most one duplicate
\* lookup, one record creation, one provider request and one record update,
\* in that order: its operations are a prefix of that chain, none repeated
C15_OneOfEachInOrder ==
    \A p \in Procs :
        LET chain == ChainOps(ops[p])
        IN  /\ Len(chain) <= Len(CallChain)
            /\ chain = SubSeq(CallChain, 1, Len(chain))

C15_Witness ==
    \E p, q \in Procs :
        /\ pc[p] = "done" /\ outcome[p].kind = "return"
        /\ ChainOps(ops[p]) = CallChain
        /\ pc[q] = "done" /\ outcome[q].kind = "raise"
        /\ ChainOps(ops[q]) = <<"check_duplicate", "create_record", "request">>

\* C16: a code list without a code of AV21..AV25 and without AV14 gives the
\* verdict bad, for every block_po_boxes and every address type
C16_NoRecognizedCodeIsBad ==
    (Classified
        /\ ~HasCode(cls.code_list, UnconditionalGood \cup {"AV14"})) =>
        /\ cls.locals.r_good = FALSE
        /\ cls.phase = "stored" =>
            /\ cls.row.result_good = Some(FALSE)
            /\ cls.return_dict.valid = Some(FALSE)

C16_Witness ==
    /\ cls.phase = "stored"
    /\ cls.code_list = <<"">>
    /\ ~cls.block_po_boxes
    /\ cls.address_type = "absent"
    /\ cls.return_dict.valid = Some(FALSE)

\* slot p has returned a result
Returned(p) == pc[p] = "done" /\ outcome[p].kind = "return"

\* the committed, classified rows a duplicate result of slot p can have
\* been served from
ServedRows(p) ==
    {row \in SameKeyRows(p) :
        /\ row.owner = "committed"
        /\ row.result_raw # None
        /\ DuplicateResult(row) = outcome[p].value}

\* the provider records behind the result of slot p, and the code strings
\* stored with them
ResultRecords(p) ==
    IF Requests(p) > 0
    THEN {Val(response[p]).text.obj.Records[1]}
    ELSE {Val(row.result_raw).obj.Records[1] : row \in ServedRows(p)}

ResultCodes(p) ==
    IF Requests(p) > 0
    THEN {Val(r[p]).r_codes}
    ELSE {Val(row.result_codes) : row \in ServedRows(p)}

TypedPoBox(record_obj) ==
    "AddressType" \in DOMAIN record_obj /\ record_obj.AddressType = "P"

\* C17: the validity a call returns follows the block_po_boxes of that
\* call: with block_po_boxes set, a result for an address the provider
\* types as a PO box is never valid; with block_po_boxes unset, a result is
\* never one that the PO box override forced bad; duplicates included
C17_VerdictFollowsOwnFlag ==
    \A p \in Procs :
        Returned(p) =>
            /\ (args[p].block_po_boxes
                    /\ \E rec \in ResultRecords(p) : TypedPoBox(rec)) =>
                outcome[p].value.valid # Some(TRUE)
            /\ ~args[p].block_po_boxes =>
                \A codes \in ResultCodes(p) : ~Contains(codes, ",AEPOBOX")

\* C18: every result returned with duplicate=true has the normalized
\* fields, coordinates and validity that a fresh call classified and stored
\* for the same (address_1, address_2, postal, country): it is never served
\* from an attempt record committed without a classified provider response
C18_DuplicatesAreClassified ==
    \A p \in Procs :
        (Returned(p) /\ "duplicate" \in DOMAIN outcome[p].value) =>
            /\ ServedRows(p) # {}
            /\ outcome[p].value.valid # None
            /\ outcome[p].value.address_1 # None
            /\ outcome[p].value.latitude # None

Commits(p) == Cardinality({i \in 1..Len(ops[p]) : ops[p][i] = "commit"})

CommittedRows == {row \in rows : row.owner = "committed"}

\* slot p left through the validation failure, a duplicate hit, the create
\* failure or the transport failure
LeftWithoutCommit(p) ==
    /\ pc[p] = "done"
    /\ \/ RequiredAbsent(args[p])
       \/ Returned(p) /\ Requests(p) = 0
       \/ CreateFailed(p)
       \/ TransportFailure(p)

\* C19: an invocation commits at most once and only after the provider
\* answered with an OK status; an invocation that leaves through the
\* validation failure, a duplicate hit, the create failure or the transport
\* failure has not committed and none of its rows is in the store; the
\* committed rows change only in the commit step of an invocation whose
\* response was OK
C19_CommitOnceAfterOk ==
    /\ [](\A p \in Procs :
            /\ Commits(p) <= 1
            /\ Commits(p) = 1 =>
                /\ response[p] # None
                /\ Val(response[p]).ok
                /\ ops[p][Len(ops[p])] = "commit"
                /\ Requests(p) = 1
            /\ LeftWithoutCommit(p) =>
                /\ Commits(p) = 0
                /\ \A row \in rows :
                       /\ row.owner # p
                       /\ record_id[p] # None =>
                           row.melissa_address_query_id # Val(record_id[p]))
    /\ [][CommittedRows' # CommittedRows =>
            \E p \in Procs :
                /\ pc[p] \in {"commit", "commit_failed"}
                /\ pc'[p] = "done"
                /\ Val(response[p]).ok
                /\ Commits(p) = 0
                /\ \A row \in CommittedRows' \ CommittedRows :
                       row.melissa_address_query_id = Val(record_id[p])]_vars

C19_Witness ==
    \E p, q \in Procs :
        /\ TransportFailure(p)
        /\ record_id[p] # None
        /\ Commits(p) = 0
        /\ pc[q] = "done"
        /\ Commits(q) = 1
        /\ CommittedRows # {}

====
